---------------------------- MODULE Spec2Model ----------------------------
(***************************************************************************)
(* Model of backend/app.py: a Flask service with a lazily loaded, process- *)
(* wide summarization pipeline (get_summarizer), a health endpoint         *)
(* (health_check) and the POST /api/summarize handler (summarize_text).    *)
(* Requests are served by worker threads (app.run serves threaded), so the *)
(* steps of get_summarizer that read or write the global `summarizer`      *)
(* interleave between threads.                                             *)
(***************************************************************************)
EXTENDS Integers, Sequences, FiniteSets, TLC

(***************************************************************************)
(* Bounds of the model.                                                    *)
(***************************************************************************)
\* worker threads serving requests at the same time
NumThreads == 2
\* pipeline constructions that may succeed in one run
MaxLoads == 2

(***************************************************************************)
(* Program constants.                                                      *)
(***************************************************************************)
DefaultMinLength == 25
DefaultMaxLength == 100
MinLengthLow == 10
MinLengthHigh == 200
MaxLengthLow == 20
MaxLengthHigh == 500
MinWords == 30
MaxChars == 5000

\* `summarizer = None`: the absent handle.  Handles are the positive serial
\* numbers of the pipeline constructions that produced them.
None == 0
\* the handler's local `model` before line 106 binds it
Unbound == -1

(***************************************************************************)
(* JSON values as Python sees them after request.get_json().               *)
(* A string is described by its shape and expanded to its characters by    *)
(* Chars: `lead` spaces, then `count` words separated by `sep`, each word  *)
(* `wrep` copies of `w`, then `trail` spaces.                              *)
(***************************************************************************)
Absent == [t |-> "absent"]
JNull == [t |-> "null"]
JInt(n) == [t |-> "int", n |-> n]
JBool(b) == [t |-> "bool", b |-> b]
\* a float, held in tenths: JFloat(105) is 10.5
JFloat(tenths) == [t |-> "float", tenths |-> tenths]
JStr(lead, w, wrep, count, sep, trail) ==
    [t |-> "str", lead |-> lead, w |-> w, wrep |-> wrep, count |-> count,
     sep |-> sep, trail |-> trail]
JWord(w) == JStr(0, w, 1, 1, <<" ">>, 0)
JList(items) == [t |-> "list", items |-> items]
JObj(text, min_length, max_length) ==
    [t |-> "obj", text |-> text, min_length |-> min_length,
     max_length |-> max_length]

BodyLen(v) ==
    IF v.count = 0 THEN 0
    ELSE v.count * (Len(v.w) * v.wrep) + (v.count - 1) * Len(v.sep)

\* the characters of a string value
Chars(v) ==
    LET wl == Len(v.w) * v.wrep
        unit == wl + Len(v.sep)
        bl == BodyLen(v)
    IN  [i \in 1..(v.lead + bl + v.trail) |->
            IF i <= v.lead \/ i > v.lead + bl THEN " "
            ELSE LET q == (i - v.lead - 1) % unit
                 IN  IF q < wl THEN v.w[(q % Len(v.w)) + 1]
                     ELSE v.sep[q - wl + 1]]

(***************************************************************************)
(* Python string operations used by the handler.                           *)
(***************************************************************************)
\* str.isspace() for one character (the ASCII whitespace str.strip() and
\* str.split() act on)
IsSpace(c) == c \in {" ", "\t", "\n", "\r", "\f"}

RECURSIVE LSkip(_, _)
LSkip(s, i) == IF i <= Len(s) /\ IsSpace(s[i]) THEN LSkip(s, i + 1) ELSE i

RECURSIVE RSkip(_, _)
RSkip(s, i) == IF i >= 1 /\ IsSpace(s[i]) THEN RSkip(s, i - 1) ELSE i

\* s.strip()
Strip(s) ==
    LET lo == LSkip(s, 1)
        hi == RSkip(s, Len(s))
    IN  IF lo > hi THEN <<>> ELSE SubSeq(s, lo, hi)

\* len(s.split()): the number of maximal runs of non-whitespace characters
WordCount(s) ==
    Cardinality({i \in 1..Len(s) :
                    ~IsSpace(s[i]) /\ (i = 1 \/ IsSpace(s[i - 1]))})

\* `needle in s` for two strings
Contains(s, needle) ==
    \E i \in 0..(Len(s) - Len(needle)) :
        \A j \in 1..Len(needle) : s[i + j] = needle[j]

DigitChars == <<"0", "1", "2", "3", "4", "5", "6", "7", "8", "9">>
IsDigit(c) == \E d \in 1..10 : DigitChars[d] = c
DigitValue(c) == (CHOOSE d \in 1..10 : DigitChars[d] = c) - 1

\* the decimal digits of n >= 0
RECURSIVE Digits(_)
Digits(n) ==
    IF n < 10 THEN <<DigitChars[n + 1]>>
    ELSE Digits(n \div 10) \o <<DigitChars[(n % 10) + 1]>>

\* the value of a non-empty sequence of digits
RECURSIVE DigitsValue(_)
DigitsValue(s) ==
    IF Len(s) = 0 THEN 0
    ELSE 10 * DigitsValue(SubSeq(s, 1, Len(s) - 1)) + DigitValue(s[Len(s)])

Raised(exc) == [ok |-> FALSE, exc |-> exc]
Value(v) == [ok |-> TRUE, v |-> v]

\* int(s) for a string: surrounding whitespace is dropped, one sign is
\* allowed, the rest must be digits; anything else raises ValueError
IntOfChars(s) ==
    LET body == Strip(s)
        signed == Len(body) > 0 /\ body[1] \in {"+", "-"}
        digits == IF signed THEN SubSeq(body, 2, Len(body)) ELSE body
    IN  IF Len(digits) > 0 /\ \A i \in 1..Len(digits) : IsDigit(digits[i])
        THEN Value(IF signed /\ body[1] = "-" THEN 0 - DigitsValue(digits)
                   ELSE DigitsValue(digits))
        ELSE Raised("ValueError: invalid literal for int() with base 10")

\* int(v): integers convert to themselves, floats truncate toward zero,
\* booleans are 1 and 0, strings are parsed, None and containers raise
PyInt(v) ==
    CASE v.t = "int" -> Value(v.n)
      [] v.t = "bool" -> Value(IF v.b THEN 1 ELSE 0)
      [] v.t = "float" ->
            Value(IF v.tenths >= 0 THEN v.tenths \div 10
                  ELSE 0 - ((0 - v.tenths) \div 10))
      [] v.t = "str" -> IntOfChars(Chars(v))
      [] OTHER -> Raised("TypeError: int() argument must be a string, a bytes-like object or a real number")

\* str(v) for the values a text field is given in the model
PyStr(v) ==
    CASE v.t = "str" -> Chars(v)
      [] v.t = "int" ->
            IF v.n < 0 THEN <<"-">> \o Digits(0 - v.n) ELSE Digits(v.n)
      [] v.t = "null" -> <<"N", "o", "n", "e">>
      [] v.t = "bool" ->
            IF v.b THEN <<"T", "r", "u", "e">> ELSE <<"F", "a", "l", "s", "e">>


(***************************************************************************)
(* The validation of summarize_text (lines 59-103), as a function of the   *)
(* request.  A request is its Content-Type test (request.is_json) and the  *)
(* value request.get_json() yields; a body that does not parse makes       *)
(* get_json() raise.                                                       *)
(***************************************************************************)
Malformed == [t |-> "malformed"]
TextKey == <<"t", "e", "x", "t">>

Reply(status, msg) ==
    [kind |-> "resp", resp |-> [status |-> status, body |-> [error |-> msg]]]
Raise(exc) == [kind |-> "raise", exc |-> exc]
Proceed(min_length, max_length, words) ==
    [kind |-> "proceed", min_length |-> min_length, max_length |-> max_length,
     original_length |-> words]

(***************************************************************************)
(* The requests of the model.                                              *)
(***************************************************************************)
Words(count, wrep) == JStr(0, <<"a">>, wrep, count, <<" ">>, 0)

\* text: 30 one-letter words (59 characters)
GoodText == Words(30, 1)
\* text: 30 words split by runs of mixed whitespace, padded on both sides
PaddedText == JStr(1, <<"a", "b">>, 1, 30, <<"\n", " ">>, 2)
\* text: 5002 characters that strip to exactly 5000, 41 words
LongestText == JStr(1, <<"a">>, 120, 41, <<" ", "\t">>, 1)
\* text: 41 words, 5001 characters
TooLongText == Words(41, 121)

TextValues ==
    { Absent,
      JStr(0, <<"a">>, 1, 0, <<" ">>, 0),     \* ""
      JStr(2, <<"a">>, 1, 0, <<" ">>, 1),     \* "   "
      Words(29, 1),                            \* 29 words
      GoodText, PaddedText, LongestText, TooLongText,
      Words(1, 5001),                          \* one word of 5001 characters
      Words(29, 200),                          \* 29 words, 5828 characters
      JInt(12345),                             \* a number: str() gives one word
      JNull }                                  \* null: str() gives "None"

IntValues == {-5, 9, 10, 19, 20, 21, 40, 50, 200, 201, 500, 501}

LengthValues ==
    {Absent} \cup {JInt(n) : n \in IntValues} \cup
    { JWord(<<"3", "0">>),                          \* "30"
      JStr(1, <<"-", "7">>, 1, 1, <<" ">>, 1),      \* " -7 "
      JWord(<<"a", "b", "c">>),                     \* "abc"
      JWord(<<"1", "0", ".", "5">>),                \* "10.5"
      JFloat(109), JFloat(99),                      \* 10.9, 9.9
      JNull, JBool(TRUE) }

Bodies ==
    { Malformed, JNull, JInt(7),
      JList(<<>>), JList(<<JWord(TextKey)>>),
      JWord(TextKey), JWord(<<"h", "i">>) } \cup
    { JObj(t, mn, mx) : t \in TextValues, mn \in LengthValues,
                        mx \in LengthValues }

Requests ==
    {[is_json |-> TRUE, body |-> b] : b \in Bodies} \cup
    {[is_json |-> FALSE, body |-> b] :
        b \in {Malformed, JObj(GoodText, Absent, Absent),
               JObj(Absent, JInt(9), JInt(501))}}

\* str(v).strip() (lines 69 and 74) for a text value, as the handler reads
\* it: len(text) and len(text.split())
StrippedText(v) ==
    LET text == Strip(PyStr(v))
    IN  [chars |-> Len(text), words |-> WordCount(text)]

\* StrippedText, tabulated once over the text values of the model (@@ makes
\* the table explicit, so that it is not computed again at every use)
Text == [v \in TextValues \ {Absent} |-> StrippedText(v)] @@ <<>>

\* `"text" in data` for the value get_json() returned: a key of a dict, an
\* element of a list, a substring of a string
InData(data) ==
    CASE data.t = "obj" -> data.text # Absent
      [] data.t = "list" ->
            \E i \in 1..Len(data.items) :
                data.items[i].t = "str" /\ Chars(data.items[i]) = TextKey
      [] data.t = "str" -> Contains(Chars(data), TextKey)

\* data.get(key, default)
Get(v, default) == IF v = Absent THEN JInt(default) ELSE v

\* a slip of line 79: the lower boundary itself is rejected
MinLengthOutOfRange_Strict(n) == n <= MinLengthLow \/ n > MinLengthHigh

MinLengthOutOfRange(n) == n < MinLengthLow \/ n > MinLengthHigh
MaxLengthOutOfRange(n) == n < MaxLengthLow \/ n > MaxLengthHigh
NotIncreasing(min_length, max_length) == min_length >= max_length
TooFewWords(text) == text.words < MinWords
TooManyChars(text) == text.chars > MaxChars

\* lines 78-103, once text, min_length and max_length are bound
CheckLengths(text, min_length, max_length) ==
    IF MinLengthOutOfRange(min_length)
    THEN Reply(400, "min_length must be between 10 and 200")
    ELSE IF MaxLengthOutOfRange(max_length)
    THEN Reply(400, "max_length must be between 20 and 500")
    ELSE IF NotIncreasing(min_length, max_length)
    THEN Reply(400, "max_length must be greater than min_length")
    ELSE IF TooFewWords(text)
    THEN Reply(400, "Text is too short to summarize. Please provide at least 30 words.")
    ELSE IF TooManyChars(text)
    THEN Reply(400, "Text is too long. Maximum 5000 characters allowed.")
    ELSE Proceed(min_length, max_length, text.words)

\* lines 74-76: the three locals, or the exception int() raises
ParseFields(data) ==
    LET text == Text[data.text]
        mn == PyInt(Get(data.min_length, DefaultMinLength))
        mx == PyInt(Get(data.max_length, DefaultMaxLength))
    IN  IF ~mn.ok THEN Raise(mn.exc)
        ELSE IF ~mx.ok THEN Raise(mx.exc)
        ELSE CheckLengths(text, mn.v, mx.v)

\* lines 61-72, then the rest
Validate(r) ==
    IF ~r.is_json
    THEN Reply(400, "Content-Type must be application/json")
    ELSE IF r.body = Malformed
    THEN Raise("BadRequest: Failed to decode JSON object")
    ELSE IF r.body.t \notin {"obj", "list", "str"}
    THEN Raise("TypeError: argument is not iterable")
    ELSE IF ~InData(r.body)
    THEN Reply(400, "Text field is required and cannot be empty")
    ELSE IF r.body.t # "obj"
    THEN Raise("TypeError: indices must be integers")
    ELSE IF Text[r.body.text].chars = 0
    THEN Reply(400, "Text field is required and cannot be empty")
    ELSE ParseFields(r.body)

\* the requests threads race on
ConcRequests ==
    { [is_json |-> TRUE, body |-> JObj(GoodText, Absent, Absent)],
      [is_json |-> TRUE, body |-> JObj(PaddedText, JWord(<<"3", "0">>), JInt(50))],
      [is_json |-> TRUE, body |-> JObj(GoodText, JWord(<<"a", "b", "c">>), Absent)],
      [is_json |-> FALSE, body |-> JObj(GoodText, Absent, Absent)] }

\* what the model may return as summary[0]["summary_text"]
Summaries ==
    { JStr(1, <<"s">>, 1, 2, <<" ", " ">>, 0),     \* " s  s"
      JWord(<<"s", "u", "m">>) }                    \* "sum"

(***************************************************************************)
(* State.                                                                  *)
(***************************************************************************)
VARIABLES
    summarizer,     \* the global handle: None or a handle
    debug,          \* app.debug
    constructed,    \* how many times pipeline(...) has returned a handle
    pc,             \* per thread: where it is in summarize_text
    req,            \* per thread: the request it serves
    locals,         \* per thread: the handler's locals once validation passed
    model,          \* per thread: the handler's local `model`
    call,           \* per thread: the invocation of the model it made
    resp,           \* per thread: the response it returns
    health          \* the response of the health check being returned

vars == <<summarizer, debug, constructed, pc, req, locals, model, call, resp, health>>

Threads == 1..NumThreads

NoRequest == [t |-> "none"]
NoLocals == [kind |-> "none"]
NoCall == [called |-> FALSE]
NoResponse == [status |-> 0]
NoHealth == [status |-> 0]

Init ==
    /\ summarizer = None
    /\ debug \in BOOLEAN
    /\ constructed = 0
    /\ pc = [t \in Threads |-> "idle"]
    /\ req = [t \in Threads |-> NoRequest]
    /\ locals = [t \in Threads |-> NoLocals]
    /\ model = [t \in Threads |-> Unbound]
    /\ call = [t \in Threads |-> NoCall]
    /\ resp = [t \in Threads |-> NoResponse]
    /\ health = NoHealth

\* a slip of line 45: the health check goes through get_summarizer(), which
\* loads the model when there is none
health_check_loading ==
    /\ health = NoHealth
    /\ constructed < MaxLoads
    /\ summarizer' = IF summarizer = None THEN constructed + 1 ELSE summarizer
    /\ constructed' = IF summarizer = None THEN constructed + 1 ELSE constructed
    /\ health' = [status |-> 200,
                  body |-> [status |-> "healthy",
                            model_loaded |-> summarizer' # None]]
    /\ UNCHANGED <<debug, pc, req, locals, model, call, resp>>

(***************************************************************************)
(* health_check (lines 38-46): one read of the global.                     *)
(***************************************************************************)
health_check ==
    /\ health = NoHealth
    /\ health' = [status |-> 200,
                  body |-> [status |-> "healthy",
                            model_loaded |-> summarizer # None]]
    /\ UNCHANGED <<summarizer, debug, constructed, pc, req, locals, model, call, resp>>

\* the health response leaves the server
health_return ==
    /\ health # NoHealth
    /\ health' = NoHealth
    /\ UNCHANGED <<summarizer, debug, constructed, pc, req, locals, model, call, resp>>

(***************************************************************************)
(* summarize_text (lines 49-139).                                          *)
(***************************************************************************)
\* a slip of line 138: the exception text is returned whatever app.debug is
ExceptResponse_Verbose(exc) ==
    [status |-> 500,
     body |-> [error |-> "An error occurred during summarization. Please try again.",
               details |-> [t |-> "text", s |-> exc]]]

\* the `except Exception` clause, lines 134-139
ExceptResponse(exc) ==
    [status |-> 500,
     body |-> [error |-> "An error occurred during summarization. Please try again.",
               details |-> IF debug THEN [t |-> "text", s |-> exc] ELSE JNull]]

\* a slip of line 127: summary_length is len(summary_text), not the length
\* of its split
SuccessResponse_CharCount(summary, l) ==
    [status |-> 200,
     body |-> [success |-> TRUE,
               summary |-> summary,
               original_length |-> l.original_length,
               summary_length |-> Len(Chars(summary)),
               parameters |-> [min_length |-> l.min_length,
                               max_length |-> l.max_length]]]

\* lines 123-132
SuccessResponse(summary, l) ==
    [status |-> 200,
     body |-> [success |-> TRUE,
               summary |-> summary,
               original_length |-> l.original_length,
               summary_length |-> WordCount(Chars(summary)),
               parameters |-> [min_length |-> l.min_length,
                               max_length |-> l.max_length]]]

\* lines 107-110
NotLoadedResponse ==
    [status |-> 503, body |-> [error |-> "Model not loaded. Please try again later."]]

\* lines 59-103: a thread takes request r and validates it
summarize_text_validate(t, r) ==
    /\ pc[t] = "idle"
    /\ req' = [req EXCEPT ![t] = r]
    /\ model' = [model EXCEPT ![t] = Unbound]
    /\ call' = [call EXCEPT ![t] = NoCall]
    /\ LET o == Validate(r)
       IN  /\ locals' = [locals EXCEPT ![t] = IF o.kind = "proceed" THEN o ELSE NoLocals]
           /\ CASE o.kind = "resp" ->
                        /\ resp' = [resp EXCEPT ![t] = o.resp]
                        /\ pc' = [pc EXCEPT ![t] = "done"]
                 [] o.kind = "raise" ->
                        /\ resp' = [resp EXCEPT ![t] = ExceptResponse(o.exc)]
                        /\ pc' = [pc EXCEPT ![t] = "done"]
                 [] o.kind = "proceed" ->
                        /\ resp' = [resp EXCEPT ![t] = NoResponse]
                        /\ pc' = [pc EXCEPT ![t] = "get_summarizer"]
    /\ UNCHANGED <<summarizer, debug, constructed, health>>

\* line 24: `if summarizer is None`
get_summarizer_test(t) ==
    /\ pc[t] = "get_summarizer"
    /\ pc' = [pc EXCEPT ![t] = IF summarizer = None THEN "load" ELSE "return"]
    /\ UNCHANGED <<summarizer, debug, constructed, req, locals, model, call, resp, health>>

\* lines 28-31: pipeline(...) returns a handle, which is stored
get_summarizer_loaded(t) ==
    /\ pc[t] = "load"
    /\ constructed < MaxLoads
    /\ constructed' = constructed + 1
    /\ summarizer' = constructed + 1
    /\ pc' = [pc EXCEPT ![t] = "return"]
    /\ UNCHANGED <<debug, req, locals, model, call, resp, health>>

\* lines 32-34: pipeline(...) raises, and None is stored
get_summarizer_failed(t) ==
    /\ pc[t] = "load"
    /\ summarizer' = None
    /\ pc' = [pc EXCEPT ![t] = "return"]
    /\ UNCHANGED <<debug, constructed, req, locals, model, call, resp, health>>

\* a slip of lines 106-110: the handle is not tested before it is called
get_summarizer_return_untested(t) ==
    /\ pc[t] = "return"
    /\ model' = [model EXCEPT ![t] = summarizer]
    /\ pc' = [pc EXCEPT ![t] = "invoke"]
    /\ UNCHANGED <<summarizer, debug, constructed, req, locals, call, resp, health>>

\* line 35 and lines 106-110: `return summarizer`, bound to `model`, tested
get_summarizer_return(t) ==
    /\ pc[t] = "return"
    /\ model' = [model EXCEPT ![t] = summarizer]
    /\ IF summarizer = None
       THEN /\ resp' = [resp EXCEPT ![t] = NotLoadedResponse]
            /\ pc' = [pc EXCEPT ![t] = "done"]
       ELSE /\ resp' = resp
            /\ pc' = [pc EXCEPT ![t] = "invoke"]
    /\ UNCHANGED <<summarizer, debug, constructed, req, locals, call, health>>

\* the arguments of the call of lines 114-119
ModelCall(t) ==
    [called |-> TRUE, handle |-> model[t],
     min_length |-> locals[t].min_length,
     max_length |-> locals[t].max_length,
     do_sample |-> FALSE]

\* lines 114-132: the model returns a summary
summarize_text_summarized(t) ==
    /\ pc[t] = "invoke"
    /\ model[t] # None
    /\ call' = [call EXCEPT ![t] = ModelCall(t)]
    /\ \E s \in Summaries :
          resp' = [resp EXCEPT ![t] = SuccessResponse(s, locals[t])]
    /\ pc' = [pc EXCEPT ![t] = "done"]
    /\ UNCHANGED <<summarizer, debug, constructed, req, locals, model, health>>

\* lines 114-119 and 134-139: the call raises (calling None raises TypeError)
summarize_text_raised(t) ==
    /\ pc[t] = "invoke"
    /\ call' = [call EXCEPT ![t] = IF model[t] = None THEN NoCall ELSE ModelCall(t)]
    /\ \E exc \in IF model[t] = None
                  THEN {"TypeError: 'NoneType' object is not callable"}
                  ELSE {"RuntimeError: inference failed"} :
          resp' = [resp EXCEPT ![t] = ExceptResponse(exc)]
    /\ pc' = [pc EXCEPT ![t] = "done"]
    /\ UNCHANGED <<summarizer, debug, constructed, req, locals, model, health>>

\* the response leaves the server and the thread is free again
summarize_text_return(t) ==
    /\ pc[t] = "done"
    /\ pc' = [pc EXCEPT ![t] = "idle"]
    /\ req' = [req EXCEPT ![t] = NoRequest]
    /\ locals' = [locals EXCEPT ![t] = NoLocals]
    /\ model' = [model EXCEPT ![t] = Unbound]
    /\ call' = [call EXCEPT ![t] = NoCall]
    /\ resp' = [resp EXCEPT ![t] = NoResponse]
    /\ UNCHANGED <<summarizer, debug, constructed, health>>

\* the steps of a thread after it has taken a request
Serve(t) ==
    \/ get_summarizer_test(t)
    \/ get_summarizer_loaded(t)
    \/ get_summarizer_failed(t)
    \/ get_summarizer_return(t)
    \/ summarize_text_summarized(t)
    \/ summarize_text_raised(t)
    \/ summarize_text_return(t)

(***************************************************************************)
(* Spec: the threads serve requests concurrently.                          *)
(* SpecSeq: one thread serves summarize requests one at a time, over all   *)
(* Requests.                                                               *)
(***************************************************************************)
Next ==
    \/ health_check
    \/ health_return
    \/ \E t \in Threads : \E r \in ConcRequests : summarize_text_validate(t, r)
    \/ \E t \in Threads : Serve(t)

Spec == Init /\ [][Next]_vars

NextSeq ==
    \/ \E r \in Requests : summarize_text_validate(1, r)
    \/ Serve(1)

SpecSeq == Init /\ [][NextSeq]_vars

(***************************************************************************)
(* What the properties below read of a state.                              *)
(***************************************************************************)
Done(t) == pc[t] = "done"
ErrorOf(r) == IF "error" \in DOMAIN r.body THEN r.body.error ELSE ""
HasDetails(r) == "details" \in DOMAIN r.body
IsObject(r) == r.is_json /\ r.body.t = "obj"
HasNonEmptyText(r) ==
    IsObject(r) /\ r.body.text # Absent /\ Text[r.body.text].chars > 0

\* the messages of the validation rules, in the order of the contract
RuleMessage ==
    << "Content-Type must be application/json",
       "Text field is required and cannot be empty",
       "min_length must be between 10 and 200",
       "max_length must be between 20 and 500",
       "max_length must be greater than min_length",
       "Text is too short to summarize. Please provide at least 30 words.",
       "Text is too long. Maximum 5000 characters allowed." >>

\* the rules of the contract a request violates.  A length that is no
\* integer is counted as violating no rule, so a request in this set
\* violates the rule under every reading of the contract.
Violated(r) ==
    IF ~r.is_json THEN {1}
    ELSE LET b == r.body
             mn == PyInt(Get(b.min_length, DefaultMinLength))
             mx == PyInt(Get(b.max_length, DefaultMaxLength))
             present == b.text # Absent /\ Text[b.text].chars > 0
         IN  {i \in 1..7 :
                \/ i = 2 /\ ~present
                \/ i = 3 /\ mn.ok /\ ~(MinLengthLow <= mn.v /\ mn.v <= MinLengthHigh)
                \/ i = 4 /\ mx.ok /\ ~(MaxLengthLow <= mx.v /\ mx.v <= MaxLengthHigh)
                \/ i = 5 /\ mn.ok /\ mx.ok /\ ~(mn.v < mx.v)
                \/ i = 6 /\ present /\ ~(Text[b.text].words >= MinWords)
                \/ i = 7 /\ present /\ ~(Text[b.text].chars <= MaxChars)}

First(S) == CHOOSE i \in S : \A j \in S : i <= j

\* C1: every completed request that violates one or more validation rules is
\* answered with status 400 and the message of the earliest rule it violates
\* in the order JSON body, text, min_length range, max_length range,
\* min_length < max_length, word count, character count.
C1_EarliestViolatedRule ==
    \A t \in Threads :
        (Done(t) /\ (~req[t].is_json \/ IsObject(req[t]))
                 /\ Violated(req[t]) # {})
            => resp[t] = [status |-> 400,
                          body |-> [error |-> RuleMessage[First(Violated(req[t]))]]]

\* C2: every request that does not pass validation (a client input error) is
\* answered with status 400 and the message of a validation rule, never 500.
C2_InputErrorsAre400 ==
    \A t \in Threads :
        (Done(t) /\ locals[t] = NoLocals)
            => /\ resp[t].status = 400
               /\ \E i \in 1..7 : ErrorOf(resp[t]) = RuleMessage[i]

IntPair(r) ==
    HasNonEmptyText(r) /\ r.body.min_length.t = "int" /\ r.body.max_length.t = "int"

LengthMessages == {RuleMessage[3], RuleMessage[4], RuleMessage[5]}

\* C3: for a request with a JSON body, non-empty text and integer min_length
\* and max_length, the length checks reject the pair, with status 400 and one
\* of the three length messages, exactly when it is outside
\* 10 <= min_length <= 200, 20 <= max_length <= 500, min_length < max_length.
C3_LengthPairsAccepted ==
    \A t \in Threads :
        (Done(t) /\ IntPair(req[t]))
            => LET mn == req[t].body.min_length.n
                   mx == req[t].body.max_length.n
                   inside == /\ 10 <= mn /\ mn <= 200
                             /\ 20 <= mx /\ mx <= 500
                             /\ mn < mx
               IN  /\ inside => ErrorOf(resp[t]) \notin LengthMessages
                   /\ ~inside => /\ resp[t].status = 400
                                 /\ ErrorOf(resp[t]) \in LengthMessages

\* C3 witness: the boundary pair (10, 500) passed every check and was
\* summarized
C3_Witness ==
    \E t \in Threads :
        /\ Done(t) /\ IntPair(req[t])
        /\ req[t].body.min_length.n = 10 /\ req[t].body.max_length.n = 500
        /\ resp[t].status = 200

\* C4: every completed request whose text has fewer than 30 whitespace-
\* separated tokens is answered with status 400, whatever its character count
\* and its min_length and max_length.
C4_FewWordsIs400 ==
    \A t \in Threads :
        (Done(t) /\ HasNonEmptyText(req[t]) /\ Text[req[t].body.text].words < 30)
            => resp[t].status = 400

\* C5: a request for which get_summarizer returned None is answered 503
\* "Model not loaded. Please try again later." and made no call of the
\* model; no call of the model is ever made on an absent handle.
C5_NotReadyIs503 ==
    \A t \in Threads :
        /\ (Done(t) /\ model[t] = None)
              => /\ resp[t] = [status |-> 503,
                               body |-> [error |-> "Model not loaded. Please try again later."]]
                 /\ call[t] = NoCall
        /\ call[t].called => call[t].handle # None

\* C5 witness: a validated request was answered 503 after get_summarizer
\* returned None
C5_Witness ==
    \E t \in Threads :
        Done(t) /\ locals[t] # NoLocals /\ model[t] = None /\ resp[t].status = 503

\* the number of whitespace-separated tokens of s, counted by where tokens end
Tokens(s) ==
    Cardinality({i \in 1..Len(s) :
                    ~IsSpace(s[i]) /\ (i = Len(s) \/ IsSpace(s[i + 1]))})

TextTokens == [v \in TextValues \ {Absent} |-> Tokens(Strip(PyStr(v)))] @@ <<>>

\* C6: a validated request whose model call returned is answered 200 with
\* success = true, summary_length the token count of the summary,
\* original_length the token count of the trimmed text, and parameters the
\* min_length and max_length passed to the model: the integers the request
\* gave, 25 and 100 where it gave none.
C6_SuccessResponse ==
    \A t \in Threads :
        (Done(t) /\ call[t].called /\ resp[t].status # 500)
            => LET b == resp[t].body
                   r == req[t].body
               IN  /\ resp[t].status = 200
                   /\ b.success = TRUE
                   /\ b.summary \in Summaries
                   /\ b.summary_length = Tokens(Chars(b.summary))
                   /\ b.original_length = TextTokens[r.text]
                   /\ b.parameters = [min_length |-> call[t].min_length,
                                      max_length |-> call[t].max_length]
                   /\ r.min_length = Absent => b.parameters.min_length = 25
                   /\ r.max_length = Absent => b.parameters.max_length = 100
                   /\ r.min_length.t = "int" => b.parameters.min_length = r.min_length.n
                   /\ r.max_length.t = "int" => b.parameters.max_length = r.max_length.n

\* C6 witness: a request that gave neither length was summarized with 25, 100
C6_Witness ==
    \E t \in Threads :
        /\ Done(t) /\ resp[t].status = 200
        /\ req[t].body.min_length = Absent /\ req[t].body.max_length = Absent
        /\ resp[t].body.parameters = [min_length |-> 25, max_length |-> 100]
        /\ resp[t].body.summary_length = 2

\* C7: a health check returns 200 with model_loaded equal to whether a handle
\* is present, and changes neither the handle, nor the number of pipeline
\* constructions, nor where any thread is in loading the model.
C7_HealthCheckReadsOnly ==
    [][(health = NoHealth /\ health' # NoHealth)
          => /\ health'.status = 200
             /\ health'.body.status = "healthy"
             /\ health'.body.model_loaded = (summarizer # None)
             /\ summarizer' = summarizer
             /\ constructed' = constructed
             /\ pc' = pc]_vars

\* C7 witness: a health check answered model_loaded = false while a load
\* was in progress after an earlier load had succeeded and another failed
C7_Witness ==
    /\ health # NoHealth
    /\ health.body.model_loaded = FALSE
    /\ constructed > 0
    /\ \E t \in Threads : pc[t] = "load"

\* C8: pipeline(...) produces a handle at most once over the process lifetime.
C8_ConstructedAtMostOnce == constructed <= 1

\* C9: a model call that raises is answered 500 with the generic message;
\* details is the exception text exactly when the service runs in debug
\* mode, is null otherwise, and no other response carries details.
C9_InferenceFailureIs500 ==
    \A t \in Threads :
        Done(t) =>
            /\ (call[t].called /\ resp[t].status # 200)
                  => /\ resp[t].status = 500
                     /\ ErrorOf(resp[t]) = "An error occurred during summarization. Please try again."
            /\ resp[t].status = 500
                  => /\ HasDetails(resp[t])
                     /\ debug => resp[t].body.details.t = "text"
                     /\ ~debug => resp[t].body.details = JNull
            /\ resp[t].status # 500 => ~HasDetails(resp[t])

\* C9 witness: in debug mode a model call raised and the 500 carries the
\* exception text
C9_Witness ==
    \E t \in Threads :
        /\ Done(t) /\ call[t].called /\ debug
        /\ resp[t].status = 500
        /\ resp[t].body.details = [t |-> "text", s |-> "RuntimeError: inference failed"]

\* C10: once the global handle is present it never becomes absent again.
C10_ReadinessMonotonic == [][summarizer # None => summarizer' # None]_vars

=============================================================================
